---------------------------- MODULE Spec2Model ----------------------------
(***************************************************************************)
(* A model of bot.py (BotBro): the message handler with its bounded        *)
(* tool-calling loop, the per-chat conversation memory, the tools, and the *)
(* jobs of the job queue.                                                  *)
(*                                                                         *)
(* Text.  A Python str is modelled as a sequence of tokens; a token is a   *)
(* run of characters that no operation of bot.py looks inside (a word, a   *)
(* blank, a marker such as "ACTION:" or "FINAL ANSWER:").  The two tokens  *)
(* "ACT" and "ION:" are the halves of the marker "ACTION:": a str never    *)
(* holds them next to each other, because juxtaposed they ARE the marker   *)
(* (Norm below), which is how str.replace can splice a marker together.    *)
(*                                                                         *)
(* Scheduling.  handle_message is a coroutine on the asyncio event loop;   *)
(* python-telegram-bot runs one update at a time (concurrent_updates is    *)
(* off by default), so there is one handler frame.  Job callbacks run on   *)
(* the same loop, so they run only while the handler is idle or suspended  *)
(* in an await; the language-model call is a synchronous call that keeps   *)
(* the loop busy until it returns.  An awaited transport or search call is *)
(* modelled as one step together with its outcome: a job callback touches  *)
(* nothing such a call reads, so it commutes with it.                      *)
(***************************************************************************)
EXTENDS Integers, Sequences, FiniteSets, Bags, TLC

\* ------------------------------------------------------------ constants

\* bot.py:32
MAX_STEPS == 5

\* bot.py:51, deque(maxlen=10)
MEMORY_MAXLEN == 10

\* bot.py:28, the value of ANNOUNCE_CHAT_ID before any message: no chat id
\* (chat ids are the positive numbers of Chats)
None == 0

\* the bot's handle, context.bot.username, as it appears in a text (bot.py:294)
BOT_MENTION == "@BotBro"

SYSTEM_PROMPT == <<"SYSTEM_PROMPT">>

\* bot.py:302
COOKED == <<"cooked.">>

\* bot.py:354
BRAIN_DIED == <<"nein... my brain died. try again.">>

\* bot.py:356
ALLES_GUT == <<"Done. Alles gut.">>

\* ----------------------------------------------------------------- text

\* the characters str.strip() removes
Whitespace == {" ", "\n"}

\* juxtaposition of characters: "ACT" followed by "ION:" is "ACTION:"
RECURSIVE Norm(_)
Norm(s) ==
    IF Len(s) < 2 THEN s
    ELSE IF s[1] = "ACT" /\ s[2] = "ION:"
         THEN <<"ACTION:">> \o Norm(SubSeq(s, 3, Len(s)))
         ELSE <<s[1]>> \o Norm(Tail(s))

\* str.lstrip(chars) / str.rstrip(chars) / str.strip(chars)
RECURSIVE lstrip(_, _)
lstrip(s, chars) ==
    IF s # <<>> /\ s[1] \in chars THEN lstrip(Tail(s), chars) ELSE s

RECURSIVE rstrip(_, _)
rstrip(s, chars) ==
    IF s # <<>> /\ s[Len(s)] \in chars
    THEN rstrip(SubSeq(s, 1, Len(s) - 1), chars)
    ELSE s

strip_chars(s, chars) == rstrip(lstrip(s, chars), chars)

\* str.strip()
strip(s) == strip_chars(s, Whitespace)

\* str.replace(old, ""), for a marker old
RemoveTokens(s, old) ==
    LET Keep(t) == t # old IN Norm(SelectSeq(s, Keep))

\* sub in s, for a one-token sub
Contains(s, sub) == \E i \in 1..Len(s) : s[i] = sub

\* str.upper() on the tokens a directive is made of
upper(t) ==
    CASE t = "action:" -> "ACTION:"
      [] t = "search" -> "SEARCH"
      [] t = "calc" -> "CALC"
      [] t = "remind" -> "REMIND"
      [] t = "check_schedule" -> "CHECK_SCHEDULE"
      [] OTHER -> t

\* ------------------------------------------------------------- memory

Turn(role, content) == [role |-> role, content |-> content]

\* deque_append, were the deque to drop from the right end when full
deque_append_newest(d, x) ==
    IF Len(d) < MEMORY_MAXLEN THEN Append(d, x)
    ELSE Append(SubSeq(d, 1, Len(d) - 1), x)

\* deque(maxlen=10).append: drops from the left end when full
deque_append(d, x) ==
    IF Len(d) < MEMORY_MAXLEN THEN Append(d, x) ELSE Append(Tail(d), x)

\* update_memory(chat_id, role, content) on the dict session_memory
update_memory(mem, chat_id, role, content) ==
    [mem EXCEPT ![chat_id] = deque_append(@, Turn(role, content))]

\* get_memory(chat_id)
get_memory(mem, chat_id) == mem[chat_id]

\* ---------------------------------------------------- directive parsing

ToolNames == {"SEARCH", "CALC", "REMIND", "CHECK_SCHEDULE"}

\* the index of the first token after position i that is not whitespace, or 0
NextNonWs(s, i) ==
    LET J == {j \in (i + 1)..Len(s) : s[j] \notin Whitespace}
    IN  IF J = {} THEN 0 ELSE CHOOSE j \in J : \A k \in J : j <= k

\* ACTION:\s*(SEARCH|CALC|REMIND|CHECK_SCHEDULE) matches at position i (re.IGNORECASE)
MatchAt(s, i) ==
    /\ upper(s[i]) = "ACTION:"
    /\ NextNonWs(s, i) # 0
    /\ upper(s[NextNonWs(s, i)]) \in ToolNames

\* (.*) : up to the end of the line
RECURSIVE UpToNewline(_)
UpToNewline(s) ==
    IF s = <<>> \/ s[1] = "\n" THEN <<>> ELSE <<s[1]>> \o UpToNewline(Tail(s))

NoMatch == [matched |-> FALSE, tool |-> "", arg |-> <<>>]

\* re_search, were the last directive of the reply taken instead of the first
re_search_last(reply) ==
    LET I == {i \in 1..Len(reply) : MatchAt(reply, i)}
    IN  IF I = {} THEN NoMatch
        ELSE LET i == CHOOSE x \in I : \A y \in I : x >= y
                 j == NextNonWs(reply, i)
                 rest == lstrip(SubSeq(reply, j + 1, Len(reply)), Whitespace)
             IN  [matched |-> TRUE,
                  tool |-> upper(reply[j]),
                  arg |-> strip(UpToNewline(rest))]

\* re.search(r"ACTION:\s*(SEARCH|CALC|REMIND|CHECK_SCHEDULE)\s*(.*)", reply, re.IGNORECASE)
\* with tool = match.group(1).upper() and arg = match.group(2).strip()
re_search(reply) ==
    LET I == {i \in 1..Len(reply) : MatchAt(reply, i)}
    IN  IF I = {} THEN NoMatch
        ELSE LET i == CHOOSE x \in I : \A y \in I : x <= y
                 j == NextNonWs(reply, i)
                 rest == lstrip(SubSeq(reply, j + 1, Len(reply)), Whitespace)
             IN  [matched |-> TRUE,
                  tool |-> upper(reply[j]),
                  arg |-> strip(UpToNewline(rest))]

\* --------------------------------------------------------- tool: CALC

\* the numeric literals of the modelled expressions, and int()/str() on them
NumValue ==
    [t \in {"0", "1", "2", "3", "4", "10", "30"} |->
        CASE t = "0" -> 0 [] t = "1" -> 1 [] t = "2" -> 2 [] t = "3" -> 3
          [] t = "4" -> 4 [] t = "10" -> 10 [] t = "30" -> 30]

CalcAllowed == DOMAIN NumValue \cup {"+", "-", "*", "/", "(", ")", ".", " "}

MATH_ERROR == <<"Math error.">>

\* the decimal digits of 0 <= n < 10^k, k digits, most significant first
RECURSIVE Digits(_, _)
Digits(n, k) ==
    IF k = 0 THEN <<>> ELSE Digits(n \div 10, k - 1) \o <<ToString(n % 10)>>

\* str(round(n / m, 4)) for n >= 0, m > 0: Python's true division gives a
\* float, printed with at least one and at most four decimals.  (No quotient
\* of two modelled literals lies halfway between two 4-decimal numbers, so
\* rounding half up and Python's rounding agree.)
DivStr(n, m) ==
    LET q == (2 * 10000 * n + m) \div (2 * m)
        frac == rstrip(Digits(q % 10000, 4), {"0"})
    IN  <<ToString(q \div 10000), ".">> \o (IF frac = <<>> THEN <<"0">> ELSE frac)

\* eval(...) of a sanitized expression without its blanks: whether it raised
\* (SyntaxError, ZeroDivisionError) and, if not, str(round(value, 4)).  The
\* expressions modelled are a literal, or two literals around one operator.
calc_eval(clean) ==
    LET IsNum(t) == t \in DOMAIN NumValue
    IN  IF Len(clean) = 1 /\ IsNum(clean[1])
        THEN [raised |-> FALSE, text |-> <<clean[1]>>]
        ELSE IF /\ Len(clean) = 3
                /\ IsNum(clean[1])
                /\ IsNum(clean[3])
                /\ clean[2] \in {"+", "-", "*", "/"}
                /\ ~(clean[2] = "/" /\ NumValue[clean[3]] = 0)
        THEN LET a == NumValue[clean[1]]
                 b == NumValue[clean[3]]
             IN  [raised |-> FALSE,
                  text |-> CASE clean[2] = "+" -> <<ToString(a + b)>>
                             [] clean[2] = "-" -> <<ToString(a - b)>>
                             [] clean[2] = "*" -> <<ToString(a * b)>>
                             [] clean[2] = "/" -> DivStr(a, b)]
        ELSE [raised |-> TRUE, text |-> <<>>]

\* re.sub(r"[^0-9+\-*/(). ]", "", expr), and the blanks the parser skips
calc_clean(expr) ==
    LET Ok(t) == t \in CalcAllowed
        NotBlank(t) == t # " "
    IN  SelectSeq(SelectSeq(expr, Ok), NotBlank)

\* tool_calc(expr): any exception gives the error text
tool_calc(expr) ==
    LET r == calc_eval(calc_clean(expr))
    IN  IF r.raised THEN MATH_ERROR ELSE r.text

\* ------------------------------------------------------- tool: SEARCH

NO_RESULTS == <<"No results found. Nichts.">>
SEARCH_TIMED_OUT == <<"Search timed out. Internet is kaputt.">>

\* _search: the provider's rows, those without a body skipped, deduplicated
\* on (title[:20], body[:20]), the first three formatted and joined by "\n"
RECURSIVE Dedup(_, _)
Dedup(raw, seen) ==
    IF raw = <<>> THEN <<>>
    ELSE LET r == raw[1]
             sig == <<r.title, r.body>>
         IN  IF r.body = "" \/ sig \in seen THEN Dedup(Tail(raw), seen)
             ELSE <<r>> \o Dedup(Tail(raw), seen \cup {sig})

RECURSIVE JoinResults(_)
JoinResults(rs) ==
    IF rs = <<>> THEN <<>>
    ELSE <<"- ", rs[1].title, ": ", rs[1].body>>
         \o (IF Len(rs) > 1 THEN <<"\n">> ELSE <<>>) \o JoinResults(Tail(rs))

search_results(raw) ==
    LET results == Dedup(raw, {})
    IN  IF results = <<>> THEN NO_RESULTS
        ELSE JoinResults(SubSeq(results, 1, IF Len(results) < 3 THEN Len(results) ELSE 3))

\* tool_search(query), by what the provider did within the 10 s deadline:
\* returned rows, ran out of time, or raised e
tool_search(outcome) ==
    CASE outcome.kind = "rows" -> search_results(outcome.raw)
      [] outcome.kind = "timeout" -> SEARCH_TIMED_OUT
      [] outcome.kind = "error" -> <<"Search failed: ", outcome.e>>

\* ------------------------------------------------------- tool: REMIND

\* float(s) for the modelled tokens (a ValueError otherwise), and str() of it
FloatOk(t) == t \in DOMAIN NumValue
FloatStr(t) == <<t, ".", "0">>

FORMAT_ERROR == <<"Format error. Use: REMIND <minutes> <reason>">>

\* the index of the first blank of s, or 0
FirstBlank(s) ==
    LET I == {i \in 1..Len(s) : s[i] = " "}
    IN  IF I = {} THEN 0 ELSE CHOOSE i \in I : \A k \in I : i <= k

\* the REMIND branch of handle_message up to the registration:
\* clean_arg = arg.strip('".'); parts = clean_arg.split(' ', 1);
\* minutes = float(parts[0]); reason = parts[1] if len(parts) > 1 else "timer"
parse_remind(arg) ==
    LET clean_arg == strip_chars(arg, {"\"", "."})
        b == FirstBlank(clean_arg)
        part0 == IF b = 0 THEN clean_arg ELSE SubSeq(clean_arg, 1, b - 1)
        ok == Len(part0) = 1 /\ FloatOk(part0[1])
    IN  [ok |-> ok,
         minutes |-> IF ok THEN NumValue[part0[1]] ELSE 0,
         minutes_str |-> IF ok THEN FloatStr(part0[1]) ELSE <<>>,
         reason |-> IF b = 0 THEN <<"timer">> ELSE SubSeq(clean_arg, b + 1, Len(clean_arg))]

\* ------------------------------------------------ tool: CHECK_SCHEDULE

Row(label, kitchen, wc) == [label |-> label, kitchen |-> kitchen, wc |-> wc]

\* CLEANING_DATA as csv.DictReader yields it: "Date Range", "Kitchen", "WC + Floor"
CLEANING_DATA ==
    <<
      Row(<<"Jan", " ", "03", " - ", "04">>, "member3", "member4"),
      Row(<<"Jan", " ", "10", " - ", "11">>, "member1", "member2"),
      Row(<<"Jan", " ", "17", " - ", "18">>, "member4", "member3"),
      Row(<<"Jan", " ", "24", " - ", "25">>, "member2", "member1"),
      Row(<<"Jan", " ", "31", " - ", "Feb", " ", "01">>, "member3", "member4"),
      Row(<<"Feb", " ", "07", " - ", "08">>, "member1", "member2"),
      Row(<<"Feb", " ", "14", " - ", "15">>, "member4", "member3"),
      Row(<<"Feb", " ", "21", " - ", "22">>, "member2", "member1"),
      Row(<<"Feb", " ", "28", " - ", "Mar", " ", "01">>, "member3", "member4"),
      Row(<<"Mar", " ", "07", " - ", "08">>, "member1", "member2"),
      Row(<<"Mar", " ", "14", " - ", "15">>, "member4", "member3"),
      Row(<<"Mar", " ", "21", " - ", "22">>, "member2", "member1"),
      Row(<<"Mar", " ", "28", " - ", "29">>, "member3", "member4"),
      Row(<<"Apr", " ", "04", " - ", "05">>, "member1", "member2"),
      Row(<<"Apr", " ", "11", " - ", "12">>, "member4", "member3"),
      Row(<<"Apr", " ", "18", " - ", "19">>, "member2", "member1"),
      Row(<<"Apr", " ", "25", " - ", "26">>, "member3", "member4"),
      Row(<<"May", " ", "02", " - ", "03">>, "member1", "member2"),
      Row(<<"May", " ", "09", " - ", "10">>, "member4", "member3"),
      Row(<<"May", " ", "16", " - ", "17">>, "member2", "member1"),
      Row(<<"May", " ", "23", " - ", "24">>, "member3", "member4"),
      Row(<<"May", " ", "30", " - ", "31">>, "member1", "member2"),
      Row(<<"Jun", " ", "06", " - ", "07">>, "member4", "member3"),
      Row(<<"Jun", " ", "13", " - ", "14">>, "member2", "member1"),
      Row(<<"Jun", " ", "20", " - ", "21">>, "member3", "member4"),
      Row(<<"Jun", " ", "27", " - ", "28">>, "member1", "member2"),
      Row(<<"Jul", " ", "04", " - ", "05">>, "member4", "member3"),
      Row(<<"Jul", " ", "11", " - ", "12">>, "member2", "member1"),
      Row(<<"Jul", " ", "18", " - ", "19">>, "member3", "member4"),
      Row(<<"Jul", " ", "25", " - ", "26">>, "member1", "member2"),
      Row(<<"Aug", " ", "01", " - ", "02">>, "member4", "member3"),
      Row(<<"Aug", " ", "08", " - ", "09">>, "member2", "member1"),
      Row(<<"Aug", " ", "15", " - ", "16">>, "member3", "member4"),
      Row(<<"Aug", " ", "22", " - ", "23">>, "member1", "member2"),
      Row(<<"Aug", " ", "29", " - ", "30">>, "member4", "member3"),
      Row(<<"Sep", " ", "05", " - ", "06">>, "member2", "member1"),
      Row(<<"Sep", " ", "12", " - ", "13">>, "member3", "member4"),
      Row(<<"Sep", " ", "19", " - ", "20">>, "member1", "member2"),
      Row(<<"Sep", " ", "26", " - ", "27">>, "member4", "member3"),
      Row(<<"Oct", " ", "03", " - ", "04">>, "member2", "member1"),
      Row(<<"Oct", " ", "10", " - ", "11">>, "member3", "member4"),
      Row(<<"Oct", " ", "17", " - ", "18">>, "member1", "member2"),
      Row(<<"Oct", " ", "24", " - ", "25">>, "member4", "member3"),
      Row(<<"Oct", " ", "31", " - ", "Nov", " ", "01">>, "member2", "member1"),
      Row(<<"Nov", " ", "07", " - ", "08">>, "member3", "member4"),
      Row(<<"Nov", " ", "14", " - ", "15">>, "member1", "member2"),
      Row(<<"Nov", " ", "21", " - ", "22">>, "member4", "member3"),
      Row(<<"Nov", " ", "28", " - ", "29">>, "member2", "member1"),
      Row(<<"Dec", " ", "05", " - ", "06">>, "member3", "member4"),
      Row(<<"Dec", " ", "12", " - ", "13">>, "member1", "member2"),
      Row(<<"Dec", " ", "19", " - ", "20">>, "member4", "member3"),
      Row(<<"Dec", " ", "26", " - ", "27">>, "member2", "member1")
    >>

MONTH_MAP ==
    [m \in {"Jan", "Feb", "Mar", "Apr", "May", "Jun",
            "Jul", "Aug", "Sep", "Oct", "Nov", "Dec"} |->
        CASE m = "Jan" -> 1 [] m = "Feb" -> 2 [] m = "Mar" -> 3 [] m = "Apr" -> 4
          [] m = "May" -> 5 [] m = "Jun" -> 6 [] m = "Jul" -> 7 [] m = "Aug" -> 8
          [] m = "Sep" -> 9 [] m = "Oct" -> 10 [] m = "Nov" -> 11 [] m = "Dec" -> 12]

USER_MAP ==
    [u \in {"member1", "member2", "member3", "member4"} |->
        CASE u = "member1" -> "@member1" [] u = "member2" -> "@member2"
          [] u = "member3" -> "@member3" [] u = "member4" -> "@member4"]

\* int(day_str) for the day numbers of the data
DayValue ==
    [t \in {"01", "03", "04", "05", "06", "07", "08", "09", "10", "11", "12",
            "13", "14", "15", "16", "17", "18", "19", "20", "21", "22", "23",
            "24", "25", "26", "27", "28", "29", "30", "31"} |->
        CASE t = "01" -> 1 [] t = "03" -> 3 [] t = "04" -> 4 [] t = "05" -> 5
          [] t = "06" -> 6 [] t = "07" -> 7 [] t = "08" -> 8 [] t = "09" -> 9
          [] t = "10" -> 10 [] t = "11" -> 11 [] t = "12" -> 12 [] t = "13" -> 13
          [] t = "14" -> 14 [] t = "15" -> 15 [] t = "16" -> 16 [] t = "17" -> 17
          [] t = "18" -> 18 [] t = "19" -> 19 [] t = "20" -> 20 [] t = "21" -> 21
          [] t = "22" -> 22 [] t = "23" -> 23 [] t = "24" -> 24 [] t = "25" -> 25
          [] t = "26" -> 26 [] t = "27" -> 27 [] t = "28" -> 28 [] t = "29" -> 29
          [] t = "30" -> 30 [] t = "31" -> 31]

\* the calendar of datetime
IsLeap(y) == y % 4 = 0 /\ (y % 100 # 0 \/ y % 400 = 0)

DaysInMonth(y, m) ==
    CASE m \in {1, 3, 5, 7, 8, 10, 12} -> 31
      [] m \in {4, 6, 9, 11} -> 30
      [] OTHER -> IF IsLeap(y) THEN 29 ELSE 28

RECURSIVE DaysBeforeMonth(_, _)
DaysBeforeMonth(y, m) ==
    IF m = 1 THEN 0 ELSE DaysBeforeMonth(y, m - 1) + DaysInMonth(y, m - 1)

\* date.toordinal()
Ordinal(y, m, d) ==
    365 * (y - 1) + ((y - 1) \div 4) - ((y - 1) \div 100) + ((y - 1) \div 400)
    + DaysBeforeMonth(y, m) + d

\* datetime.now(): the date, and whether any time has passed since midnight
Now(y, m, d, after_midnight) ==
    [year |-> y, month |-> m, day |-> d, after_midnight |-> after_midnight]

NoDate == [year |-> 0, month |-> 0, day |-> 0]

\* parse_schedule_date, were lines 194-199 missing: every date in now's year
parse_schedule_date_this_year(label, now) ==
    LET cut == IF \E i \in 1..Len(label) : label[i] = " - "
               THEN CHOOSE i \in 1..Len(label) :
                        label[i] = " - " /\ \A k \in 1..(i - 1) : label[k] # " - "
               ELSE Len(label) + 1
        NotWs(t) == t \notin Whitespace
        words == SelectSeq(strip(SubSeq(label, 1, cut - 1)), NotWs)
    IN  IF Len(words) # 2 THEN NoDate
        ELSE IF words[1] \notin DOMAIN MONTH_MAP \/ words[2] \notin DOMAIN DayValue THEN NoDate
        ELSE IF DayValue[words[2]] > DaysInMonth(now.year, MONTH_MAP[words[1]]) THEN NoDate
        ELSE [year |-> now.year, month |-> MONTH_MAP[words[1]], day |-> DayValue[words[2]]]

\* parse_schedule_date(date_range), with datetime.now() = now; NoDate is None
parse_schedule_date(date_range, now) ==
    LET IsSep(i) == date_range[i] = " - "
        seps == {i \in 1..Len(date_range) : IsSep(i)}
        cut == IF seps = {} THEN Len(date_range) + 1
               ELSE CHOOSE i \in seps : \A k \in seps : i <= k
        first_part == strip(SubSeq(date_range, 1, cut - 1))
        NotWs(t) == t \notin Whitespace
        words == SelectSeq(first_part, NotWs)
    IN  IF Len(words) # 2 THEN NoDate
        ELSE IF words[1] \notin DOMAIN MONTH_MAP THEN NoDate
        ELSE IF words[2] \notin DOMAIN DayValue THEN NoDate
        ELSE LET month == MONTH_MAP[words[1]]
                 day == DayValue[words[2]]
             IN  IF day > DaysInMonth(now.year, month) THEN NoDate
                 ELSE IF now.month = 12 /\ month = 1
                      THEN [year |-> now.year + 1, month |-> month, day |-> day]
                 ELSE IF now.month = 1 /\ month = 12
                      THEN [year |-> now.year - 1, month |-> month, day |-> day]
                 ELSE [year |-> now.year, month |-> month, day |-> day]

\* (d - now).days: timedelta.days rounds towards minus infinity, and d is a midnight
DeltaDays(d, now) ==
    Ordinal(d.year, d.month, d.day) - Ordinal(now.year, now.month, now.day)
    - (IF now.after_midnight THEN 1 ELSE 0)

\* the list future of tool_check_schedule before the sort: (delta, row) pairs
RECURSIVE InWindow(_, _)
InWindow(rows, now) ==
    IF rows = <<>> THEN <<>>
    ELSE LET d == parse_schedule_date(rows[1].label, now)
             delta == DeltaDays(d, now)
         IN  (IF d # NoDate /\ -2 <= delta /\ delta <= 30
              THEN <<[delta |-> delta, row |-> rows[1]]>> ELSE <<>>)
             \o InWindow(Tail(rows), now)

\* list.sort(key=lambda x: x[0]): stable, ascending delta
RECURSIVE SortByDelta(_)
SortByDelta(xs) ==
    IF xs = <<>> THEN <<>>
    ELSE LET Least(i) == \A k \in 1..Len(xs) :
                             xs[i].delta < xs[k].delta \/ (xs[i].delta = xs[k].delta /\ i <= k)
             i == CHOOSE k \in 1..Len(xs) : Least(k)
         IN  <<xs[i]>> \o SortByDelta(SubSeq(xs, 1, i - 1) \o SubSeq(xs, i + 1, Len(xs)))

NO_SCHEDULE == <<"No upcoming schedule found.">>

RECURSIVE FormatRows(_)
FormatRows(xs) ==
    IF xs = <<>> THEN <<>>
    ELSE LET r == xs[1].row
             Name(u) == IF u \in DOMAIN USER_MAP THEN USER_MAP[u] ELSE u
         IN  <<"\n">> \o r.label \o <<"\n", "Kitchen: ", Name(r.kitchen), "\n",
                                      "WC: ", Name(r.wc), "\n">>
             \o FormatRows(Tail(xs))

\* tool_check_schedule(), with datetime.now() = now
tool_check_schedule(now) ==
    LET future == SortByDelta(InWindow(CLEANING_DATA, now))
    IN  IF future = <<>> THEN NO_SCHEDULE
        ELSE <<"Cleaning Schedule:", "\n">>
             \o FormatRows(SubSeq(future, 1, IF Len(future) < 3 THEN Len(future) ELSE 3))

\* The clock readings of the model: for a CHECK_SCHEDULE directive a Sunday
\* after midnight, for the weekly job a Saturday at 10:00.
Nows == {Now(2025, 1, 5, TRUE)}

WeeklyNows == {Now(2025, 1, 4, TRUE)}

\* tool_check_schedule() at each clock reading of the model
schedule_at == [now \in Nows \cup WeeklyNows |-> tool_check_schedule(now)]

\* ------------------------------------------------------------ transport

\* What bot.edit_message_text did: edited the message, or raised BadRequest
\* "Message is not modified", or another BadRequest, or an error that is not a
\* BadRequest (TimedOut, NetworkError, Forbidden, ...).
EditOutcomes == {"ok", "not_modified", "bad_request", "error"}

\* What bot.send_message did: sent the message, or raised.
SendOutcomes == {"ok", "error"}

\* safe_edit_message: a BadRequest is swallowed (pass, or a logged warning);
\* any other exception leaves the function.  shown: the message now shows the
\* text (it was edited, or already had exactly that text).
safe_edit_message(outcome) ==
    [raised |-> outcome \notin {"ok", "not_modified", "bad_request"},
     shown |-> outcome \in {"ok", "not_modified"}]

\* ----------------------------------------------------------------- jobs

\* app.job_queue.run_daily(weekly_announce_callback, time=ANNOUNCE_TIME, days=(ANNOUNCE_DAY,))
WeeklyJob ==
    [callback |-> "weekly_announce_callback", chat_id |-> None, data |-> <<>>, when |-> 0]

\* AlarmJob, were the minutes handed to run_once as the delay in seconds
AlarmJob_minutes(when, chat, data) ==
    [callback |-> "alarm_callback", chat_id |-> chat, data |-> data, when |-> when \div 60]

\* context.job_queue.run_once(alarm_callback, minutes * 60, chat_id=chat_id, data=reason)
AlarmJob(when, chat, data) ==
    [callback |-> "alarm_callback", chat_id |-> chat, data |-> data, when |-> when]

run_once(queue, job) == queue (+) SetToBag({job})

\* ---------------------------------------------------------------- state

VARIABLES
    ANNOUNCE_CHAT_ID,   \* the module global
    session_memory,     \* the module global: chat id -> deque of turns
    appended,           \* history: chat id -> every turn update_memory was given
    job_queue,          \* the jobs registered with the job queue (a bag)
    pc,                 \* where the one handle_message frame is
    update,             \* the update last handed to handle_message
    chat_id,            \* handle_message's locals
    status_msg,
    messages,
    final_reply,
    step,               \* the number of completed iterations of the for loop
    reply,
    match,
    nreq,               \* messages that passed the admission filter so far
    llm_calls,          \* this request: calls of client.chat.completions.create
    tool_calls,         \* this request: branches of the tool dispatch entered
    abort,              \* this request: what raised inside the loop's try
    tool_error,         \* this request: what the tool caught inside itself at the last dispatch
    delivered,          \* this request: the final texts the chat got (<<>>: none)
    raised,             \* this request: an exception left handle_message
    transport_calls,    \* this request: send_message / edit_message_text calls
    job_sends,          \* send_message calls made by job callbacks (a bag)
    weekly_runs,        \* firings of the weekly job so far
    clock,              \* the schedule resolver alone: what datetime.now() returns
    date_label,         \* the "Date Range" last given to parse_schedule_date
    parsed,             \* what parse_schedule_date returned for it
    kept,               \* whether tool_check_schedule's window keeps that row
    sched               \* what tool_check_schedule() returned (<<>>: not called)

memory == <<session_memory, appended>>
globals == <<ANNOUNCE_CHAT_ID, memory, job_queue>>
frame == <<chat_id, status_msg, messages, final_reply, step, reply, match>>
request == <<llm_calls, tool_calls, abort, tool_error, delivered, raised, transport_calls>>
jobs == <<job_sends, weekly_runs>>
resolver == <<clock, date_label, parsed, kept, sched>>
vars == <<globals, pc, update, frame, nreq, request, jobs, resolver>>

\* ----------------------------------------------------- the environment

\* admitted messages handled before the model stops taking new ones
MaxRequests == 1

\* firings of the weekly job before the model stops firing it
MaxWeekly == 1

\* chat 1 is a one-to-one chat with the bot, chat 2 a group
Chats == {1, 2}
chat_type(c) == IF c = 1 THEN "private" ELSE "group"

\* update.message.text (<<>>: no message, or no text), the chat, and whether
\* the message replies to a message of the bot
Update(c, text, reply_to_bot) == [chat |-> c, text |-> text, reply_to_bot |-> reply_to_bot]

NoUpdate == Update(0, <<>>, FALSE)

Updates ==
    { Update(2, <<>>, FALSE),
      Update(1, <<"hi", " ">>, FALSE),
      Update(2, <<"hi">>, FALSE),
      Update(2, <<BOT_MENTION, " ", "hi">>, FALSE),
      Update(2, <<"hi">>, TRUE) }

\* ----------------------------------------------------------------- Init

NoFrame ==
    /\ chat_id = None
    /\ status_msg = None
    /\ messages = <<>>
    /\ final_reply = <<>>
    /\ step = 0
    /\ reply = <<>>
    /\ match = NoMatch

NoRequest ==
    /\ llm_calls = 0
    /\ tool_calls = 0
    /\ abort = "none"
    /\ tool_error = "none"
    /\ delivered = <<>>
    /\ raised = FALSE
    /\ transport_calls = 0

\* the schedule resolver has not been called
NoClock == Now(0, 0, 0, FALSE)

NoResolver ==
    /\ date_label = <<>>
    /\ parsed = NoDate
    /\ kept = FALSE
    /\ sched = <<>>

\* the module's globals as the imports leave them, and the job queue after
\* __main__ has registered the weekly job
Init ==
    /\ ANNOUNCE_CHAT_ID = None
    /\ session_memory = [c \in Chats |-> <<>>]
    /\ appended = [c \in Chats |-> <<>>]
    /\ job_queue = SetToBag({WeeklyJob})
    /\ pc = "idle"
    /\ update = NoUpdate
    /\ NoFrame
    /\ nreq = 0
    /\ NoRequest
    /\ job_sends = EmptyBag
    /\ weekly_runs = 0
    /\ clock = NoClock
    /\ NoResolver

\* a call update_memory(chat, role, content)
UpdateMemory(chat, role, content) ==
    /\ session_memory' = update_memory(session_memory, chat, role, content)
    /\ appended' = [appended EXCEPT ![chat] = Append(@, Turn(role, content))]

\* ------------------------------------------------------- handle_message

\* is_direct, were the filter to let every message through
is_direct_all(u) == TRUE

\* the admission filter, bot.py:292-294
is_direct(u) ==
    \/ chat_type(u.chat) = "private"
    \/ u.reply_to_bot
    \/ Contains(strip(u.text), BOT_MENTION)

\* bot.py:281-302: from the call up to the loop, with the outcome of the
\* send_message that creates the status message
HandleMessage(u, sent) ==
    /\ pc = "idle"
    /\ update' = u
    /\ UNCHANGED <<job_queue, jobs>>
    /\ IF u.text = <<>>
       THEN UNCHANGED <<ANNOUNCE_CHAT_ID, memory, pc, frame, nreq, request>>
       ELSE /\ ANNOUNCE_CHAT_ID' = u.chat
            /\ IF ~is_direct(u)
               THEN UNCHANGED <<memory, pc, frame, nreq, request>>
               ELSE /\ nreq < MaxRequests
                    /\ nreq' = nreq + 1
                    /\ UpdateMemory(u.chat, "user", strip(u.text))
                    /\ chat_id' = u.chat
                    /\ llm_calls' = 0
                    /\ tool_calls' = 0
                    /\ abort' = "none"
                    /\ tool_error' = "none"
                    /\ delivered' = <<>>
                    /\ transport_calls' = 1
                    /\ step' = 0
                    /\ reply' = <<>>
                    /\ match' = NoMatch
                    /\ IF sent = "ok"
                       THEN /\ status_msg' = nreq'
                            /\ messages' = <<Turn("system", SYSTEM_PROMPT)>>
                                           \o get_memory(session_memory', u.chat)
                            /\ final_reply' = COOKED
                            /\ raised' = FALSE
                            /\ pc' = "loop"
                       ELSE /\ status_msg' = None
                            /\ messages' = <<>>
                            /\ final_reply' = <<>>
                            /\ raised' = TRUE
                            /\ pc' = "done"
    /\ UNCHANGED resolver

\* bot.py:305-306: the next iteration of the for loop enters the model call
LLMCall ==
    /\ pc = "loop"
    /\ step < MAX_STEPS
    /\ pc' = "llm_wait"
    /\ llm_calls' = llm_calls + 1
    /\ UNCHANGED <<globals, update, frame, nreq, abort, tool_error, delivered,
                   raised, tool_calls, transport_calls, jobs>>
    /\ UNCHANGED resolver

\* LoopExhausted, were the last reply to stand as the final reply
LoopExhausted_last_reply ==
    /\ pc = "loop"
    /\ step = MAX_STEPS
    /\ pc' = "finalize"
    /\ final_reply' = reply
    /\ UNCHANGED <<globals, update, chat_id, status_msg, messages, step, reply,
                   match, nreq, request, jobs, resolver>>

\* bot.py:305: range(MAX_STEPS) is exhausted, the for loop ends
LoopExhausted ==
    /\ pc = "loop"
    /\ step = MAX_STEPS
    /\ pc' = "finalize"
    /\ UNCHANGED <<globals, update, frame, nreq, request, jobs>>
    /\ UNCHANGED resolver

\* The models considered: one that has asked for a tool asks for the same
\* again, or answers (or fails).
Consistent(r) ==
    step = 0 \/ ~re_search(strip(r)).matched \/ strip(r) = reply

\* LLMReturn, were a directive reply stored with update_memory as well
LLMReturn_persist(r) ==
    /\ pc = "llm_wait"
    /\ Consistent(r)
    /\ reply' = strip(r)
    /\ match' = re_search(reply')
    /\ IF match'.matched
       THEN /\ messages' = Append(messages, Turn("assistant", reply'))
            /\ UpdateMemory(chat_id, "assistant", reply')
            /\ pc' = "dispatch"
            /\ UNCHANGED final_reply
       ELSE /\ final_reply' = strip(RemoveTokens(reply', "FINAL ANSWER:"))
            /\ pc' = "finalize"
            /\ UNCHANGED <<messages, memory>>
    /\ UNCHANGED <<ANNOUNCE_CHAT_ID, job_queue, update, chat_id, status_msg, step,
                   nreq, request, jobs, resolver>>

\* bot.py:306-319 and 349-350: the model call returns content r
LLMReturn(r) ==
    /\ pc = "llm_wait"
    /\ Consistent(r)
    /\ reply' = strip(r)
    /\ match' = re_search(reply')
    /\ IF match'.matched
       THEN /\ messages' = Append(messages, Turn("assistant", reply'))
            /\ pc' = "dispatch"
            /\ UNCHANGED final_reply
       ELSE /\ final_reply' = strip(RemoveTokens(reply', "FINAL ANSWER:"))
            /\ pc' = "finalize"
            /\ UNCHANGED messages
    /\ UNCHANGED <<globals, update, chat_id, status_msg, step, nreq, request, jobs>>
    /\ UNCHANGED resolver

\* LLMRaise, were the failure to cancel the reminders the request registered
LLMRaise_rollback ==
    /\ pc = "llm_wait"
    /\ final_reply' = BRAIN_DIED
    /\ abort' = "llm"
    /\ pc' = "finalize"
    /\ job_queue' = [x \in {y \in BagToSet(job_queue) : y.chat_id # chat_id} |-> job_queue[x]]
    /\ UNCHANGED <<ANNOUNCE_CHAT_ID, memory, update, chat_id, status_msg, messages,
                   step, reply, match, nreq, llm_calls, tool_calls, tool_error,
                   delivered, raised, transport_calls, jobs, resolver>>

\* LLMRaise, were the except clause inside the loop: the failure is noted and
\* the next iteration calls the model again
LLMRaise_retry ==
    /\ pc = "llm_wait"
    /\ final_reply' = BRAIN_DIED
    /\ abort' = "llm"
    /\ step' = step + 1
    /\ pc' = "loop"
    /\ UNCHANGED <<globals, update, chat_id, status_msg, messages, reply,
                   match, nreq, llm_calls, tool_calls, tool_error, delivered,
                   raised, transport_calls, jobs>>
    /\ UNCHANGED resolver

\* bot.py:352-354: the model call raises (or returns no content to strip)
LLMRaise ==
    /\ pc = "llm_wait"
    /\ final_reply' = BRAIN_DIED
    /\ abort' = "llm"
    /\ pc' = "finalize"
    /\ UNCHANGED <<globals, update, chat_id, status_msg, messages, step, reply,
                   match, nreq, llm_calls, tool_calls, tool_error, delivered,
                   raised, transport_calls, jobs>>
    /\ UNCHANGED resolver

\* bot.py:346: messages.append({"role": "user", "content": f"OBSERVATION: {obs}"})
Observation(obs) == Turn("user", <<"OBSERVATION: ">> \o obs)

\* Observe, were the tools to let their exceptions out to the loop's except
Observe_abort(obs, err) ==
    IF err = "none"
    THEN /\ messages' = Append(messages, Observation(obs))
         /\ step' = step + 1
         /\ pc' = "loop"
         /\ tool_error' = err
         /\ UNCHANGED <<final_reply, abort>>
    ELSE /\ final_reply' = BRAIN_DIED
         /\ abort' = "tool"
         /\ pc' = "finalize"
         /\ tool_error' = err
         /\ UNCHANGED <<messages, step>>

\* A tool branch ended with obs, having caught err inside itself ("none": it
\* caught nothing): bot.py:346-347.
Observe(obs, err) ==
    /\ messages' = Append(messages, Observation(obs))
    /\ step' = step + 1
    /\ pc' = "loop"
    /\ tool_error' = err
    /\ UNCHANGED <<final_reply, abort>>

\* an exception inside the loop's try that no tool caught: bot.py:352-354
LoopRaise ==
    /\ final_reply' = BRAIN_DIED
    /\ abort' = "status_edit"
    /\ pc' = "finalize"
    /\ tool_error' = "none"
    /\ UNCHANGED <<messages, step>>

\* bot.py:321-323: the SEARCH branch, with the outcomes of the status edit
\* and of the search
DispatchSearch(edited, outcome) ==
    /\ pc = "dispatch"
    /\ match.tool = "SEARCH"
    /\ tool_calls' = tool_calls + 1
    /\ transport_calls' = transport_calls + 1
    /\ IF safe_edit_message(edited).raised
       THEN LoopRaise
       ELSE Observe(tool_search(outcome),
                    CASE outcome.kind = "timeout" -> "search_timeout"
                      [] outcome.kind = "error" -> "search_error"
                      [] OTHER -> "none")
    /\ UNCHANGED <<globals, update, chat_id, status_msg, reply, match, nreq,
                   llm_calls, delivered, raised, jobs>>
    /\ UNCHANGED resolver

\* bot.py:325-326: the CALC branch
DispatchCalc ==
    /\ pc = "dispatch"
    /\ match.tool = "CALC"
    /\ tool_calls' = tool_calls + 1
    /\ Observe(tool_calc(match.arg),
               IF calc_eval(calc_clean(match.arg)).raised THEN "calc_error" ELSE "none")
    /\ UNCHANGED <<globals, update, chat_id, status_msg, reply, match, nreq,
                   llm_calls, delivered, raised, transport_calls, jobs>>
    /\ UNCHANGED resolver

\* bot.py:328-330: the CHECK_SCHEDULE branch, with the outcome of the status
\* edit and the clock
DispatchSchedule(edited, now) ==
    /\ pc = "dispatch"
    /\ match.tool = "CHECK_SCHEDULE"
    /\ tool_calls' = tool_calls + 1
    /\ transport_calls' = transport_calls + 1
    /\ IF safe_edit_message(edited).raised
       THEN LoopRaise
       ELSE Observe(schedule_at[now], "none")
    /\ UNCHANGED <<globals, update, chat_id, status_msg, reply, match, nreq,
                   llm_calls, delivered, raised, jobs>>
    /\ UNCHANGED resolver

\* bot.py:332-341: the REMIND branch
DispatchRemind ==
    /\ pc = "dispatch"
    /\ match.tool = "REMIND"
    /\ tool_calls' = tool_calls + 1
    /\ LET p == parse_remind(match.arg)
       IN  IF p.ok
           THEN /\ job_queue' = run_once(job_queue, AlarmJob(p.minutes * 60, chat_id, p.reason))
                /\ Observe(<<"Timer set for ">> \o p.minutes_str \o <<" minutes.">>, "none")
           ELSE /\ UNCHANGED job_queue
                /\ Observe(FORMAT_ERROR, "remind_format")
    /\ UNCHANGED <<ANNOUNCE_CHAT_ID, memory, update, chat_id, status_msg,
                   reply, match, nreq, llm_calls, delivered, raised,
                   transport_calls, jobs>>
    /\ UNCHANGED resolver

\* sanitize, were line 356 missing
sanitize_off(text) == text

\* bot.py:356: a final reply that holds "ACTION:" is replaced
sanitize(text) == IF Contains(text, "ACTION:") THEN ALLES_GUT ELSE text

\* bot.py:356-362: the final reply is sanitized, the status message is edited
\* to it and the reply is stored; if the edit raises, the reply is sent as a
\* new message instead
Finalize(edited, sent) ==
    /\ pc = "finalize"
    /\ final_reply' = sanitize(final_reply)
    /\ pc' = "done"
    /\ IF ~safe_edit_message(edited).raised
       THEN /\ UpdateMemory(chat_id, "assistant", final_reply')
            /\ delivered' = IF safe_edit_message(edited).shown THEN <<final_reply'>> ELSE <<>>
            /\ transport_calls' = transport_calls + 1
            /\ UNCHANGED raised
       ELSE /\ UNCHANGED memory
            /\ delivered' = IF sent = "ok" THEN <<final_reply'>> ELSE <<>>
            /\ transport_calls' = transport_calls + 2
            /\ raised' = (sent # "ok")
    /\ UNCHANGED <<ANNOUNCE_CHAT_ID, job_queue, update, chat_id, status_msg,
                   messages, step, reply, match, nreq, llm_calls, tool_calls,
                   abort, tool_error, jobs>>
    /\ UNCHANGED resolver

\* handle_message has returned (or raised): its frame is gone
Return ==
    /\ pc = "done"
    /\ pc' = "idle"
    /\ chat_id' = None
    /\ status_msg' = None
    /\ messages' = <<>>
    /\ final_reply' = <<>>
    /\ step' = 0
    /\ reply' = <<>>
    /\ match' = NoMatch
    /\ llm_calls' = 0
    /\ tool_calls' = 0
    /\ abort' = "none"
    /\ tool_error' = "none"
    /\ delivered' = <<>>
    /\ raised' = FALSE
    /\ transport_calls' = 0
    /\ UNCHANGED <<globals, update, nreq, jobs>>
    /\ UNCHANGED resolver

\* --------------------------------------------------------- job callbacks

\* The event loop runs a job callback only when it is not inside the
\* synchronous model call.
LoopFree == pc # "llm_wait"

JobSend(callback, chat, text) == [callback |-> callback, chat_id |-> chat, text |-> text]

\* bot.py:236-238: a one-shot job fires; the job queue drops it
AlarmCallback(job) ==
    /\ LoopFree
    /\ BagIn(job, job_queue)
    /\ job.callback = "alarm_callback"
    /\ job_queue' = job_queue (-) SetToBag({job})
    /\ job_sends' = job_sends
                    (+) SetToBag({JobSend(job.callback, job.chat_id,
                                          <<"ACHTUNG! REMINDER: ">> \o job.data)})
    /\ UNCHANGED <<ANNOUNCE_CHAT_ID, memory, pc, update, frame, nreq,
                   request, weekly_runs>>
    /\ UNCHANGED resolver

\* WeeklyAnnounceCallback, were the job registered with run_once: it fires
\* once and the job queue drops it
WeeklyAnnounceCallback_once(now) ==
    /\ LoopFree
    /\ BagIn(WeeklyJob, job_queue)
    /\ weekly_runs < MaxWeekly
    /\ weekly_runs' = weekly_runs + 1
    /\ job_queue' = job_queue (-) SetToBag({WeeklyJob})
    /\ IF ANNOUNCE_CHAT_ID # None
       THEN job_sends' = job_sends
                         (+) SetToBag({JobSend(WeeklyJob.callback, ANNOUNCE_CHAT_ID,
                                               <<"SATURDAY CLEANING CHECK:", "\n", "\n">>
                                               \o schedule_at[now])})
       ELSE UNCHANGED job_sends
    /\ UNCHANGED <<ANNOUNCE_CHAT_ID, memory, pc, update, frame, nreq, request>>
    /\ UNCHANGED resolver

\* bot.py:240-243: the weekly job fires; it stays in the job queue
WeeklyAnnounceCallback(now) ==
    /\ LoopFree
    /\ BagIn(WeeklyJob, job_queue)
    /\ weekly_runs < MaxWeekly
    /\ weekly_runs' = weekly_runs + 1
    /\ IF ANNOUNCE_CHAT_ID # None
       THEN job_sends' = job_sends
                         (+) SetToBag({JobSend(WeeklyJob.callback, ANNOUNCE_CHAT_ID,
                                               <<"SATURDAY CLEANING CHECK:", "\n", "\n">>
                                               \o schedule_at[now])})
       ELSE UNCHANGED job_sends
    /\ UNCHANGED <<globals, pc, update, frame, nreq, request>>
    /\ UNCHANGED resolver

\* --------------------------------------------------- the specification

\* Contents the model returns.
R_OK == <<" ", "FINAL ANSWER:", " ", "ok", "\n">>
R_LEAK == <<"ACTION:", " ", "DANCE">>
R_SPLICE == <<"ACT", "FINAL ANSWER:", "ION:", " ", "ok">>
R_SEARCH == <<"hm", " ", "ACTION:", " ", "SEARCH", " ", "beer">>
R_CALC == <<"ACTION:", "CALC", " ", "2", "+", "2">>
R_CALC_ZERO == <<"action:", " ", "calc", " ", "1", "/", "0", "\n", "ok">>
R_REMIND == <<"ACTION:", " ", "REMIND", " ", "\"", "30", " ", "oven", ".", "\"">>
R_REMIND_BAD == <<"ACTION:", " ", "REMIND", " ", "soon">>
R_REMIND_TIMER == <<"ok", "\n", "ACTION:", "\n", "remind", " ", "30", "\n", "ACTION:", " ", "CALC", " ", "1">>
R_SCHEDULE == <<"ACTION:", " ", "CHECK_SCHEDULE">>

Replies ==
    {R_OK, R_LEAK, R_SPLICE, R_SEARCH, R_CALC, R_CALC_ZERO, R_REMIND,
     R_REMIND_BAD, R_REMIND_TIMER, R_SCHEDULE}

Hit(title, body) == [title |-> title, body |-> body]

SearchOutcomes ==
    { [kind |-> "rows", raw |-> <<Hit("Bier", "gut"), Hit("Bier", "gut"), Hit("Pils", "")>>],
      [kind |-> "timeout"],
      [kind |-> "error", e |-> "HTTP 403"] }

Next ==
    \/ \E u \in Updates, sent \in SendOutcomes : HandleMessage(u, sent)
    \/ LLMCall
    \/ LoopExhausted
    \/ \E r \in Replies : LLMReturn(r)
    \/ LLMRaise
    \/ \E edited \in EditOutcomes, outcome \in SearchOutcomes : DispatchSearch(edited, outcome)
    \/ DispatchCalc
    \/ \E edited \in EditOutcomes, now \in Nows : DispatchSchedule(edited, now)
    \/ DispatchRemind
    \/ \E edited \in EditOutcomes, sent \in SendOutcomes : Finalize(edited, sent)
    \/ Return
    \/ \E job \in BagToSet(job_queue) : AlarmCallback(job)
    \/ \E now \in WeeklyNows : WeeklyAnnounceCallback(now)

Spec == Init /\ [][Next]_vars

\* update_memory called directly, in any order, for any chat

\* calls of update_memory before the model stops making them
MaxAppends == 12

MemoryTurns == {Turn("user", <<"hi">>), Turn("assistant", <<"ok">>)}

UpdateMemoryCall(chat, role, content) ==
    /\ Len(appended[1]) + Len(appended[2]) < MaxAppends
    /\ UpdateMemory(chat, role, content)
    /\ UNCHANGED <<ANNOUNCE_CHAT_ID, job_queue, pc, update, frame, nreq, request, jobs>>
    /\ UNCHANGED resolver

NextMemory ==
    \E chat \in Chats, t \in MemoryTurns : UpdateMemoryCall(chat, t.role, t.content)

SpecMemory == Init /\ [][NextMemory]_vars

\* the schedule resolver alone: parse_schedule_date and tool_check_schedule
\* called directly, at any of the clock readings below

\* datetime.now(): at midnight and later in the day; in January, in December,
\* on a leap day, two days after a row's start, and in mid-year
Clocks ==
    { Now(2025, 1, 5, FALSE), Now(2025, 1, 5, TRUE),
      Now(2025, 12, 28, FALSE), Now(2025, 12, 28, TRUE),
      Now(2024, 12, 7, TRUE), Now(2025, 12, 31, TRUE),
      Now(2025, 1, 1, FALSE), Now(2024, 2, 29, TRUE),
      Now(2025, 3, 2, TRUE), Now(2025, 6, 15, TRUE) }

\* the labels given to parse_schedule_date: those of the data, and some that
\* do not parse (unknown month, no day, a day the month does not have)
DateRanges ==
    {CLEANING_DATA[i].label : i \in 1..Len(CLEANING_DATA)}
    \cup {<<"Foo", " ", "03", " - ", "04">>, <<"Jan">>, <<"Feb", " ", "30">>}

InitSchedule ==
    /\ ANNOUNCE_CHAT_ID = None
    /\ session_memory = [c \in Chats |-> <<>>]
    /\ appended = [c \in Chats |-> <<>>]
    /\ job_queue = SetToBag({WeeklyJob})
    /\ pc = "idle"
    /\ update = NoUpdate
    /\ NoFrame
    /\ nreq = 0
    /\ NoRequest
    /\ job_sends = EmptyBag
    /\ weekly_runs = 0
    /\ clock \in Clocks
    /\ NoResolver

\* a call parse_schedule_date(label), and what the window of
\* tool_check_schedule makes of a row with that label
ParseScheduleDate(label) ==
    /\ date_label' = label
    /\ parsed' = parse_schedule_date(label, clock)
    /\ kept' = (InWindow(<<Row(label, "", "")>>, clock) # <<>>)
    /\ UNCHANGED <<globals, pc, update, frame, nreq, request, jobs, clock, sched>>

\* a call tool_check_schedule()
ToolCheckSchedule ==
    /\ sched' = tool_check_schedule(clock)
    /\ UNCHANGED <<globals, pc, update, frame, nreq, request, jobs, clock,
                   date_label, parsed, kept>>

NextSchedule ==
    \/ \E label \in DateRanges : ParseScheduleDate(label)
    \/ ToolCheckSchedule

SpecSchedule == InitSchedule /\ [][NextSchedule]_vars

\* ---------------------------------------------------------- properties

\* the request has gone through the loop and what follows it
LoopEnded == pc = "done" /\ status_msg # None

\* the last n elements of s
Last(s, n) == SubSeq(s, (IF Len(s) > n THEN Len(s) - n ELSE 0) + 1, Len(s))

\* C1: an admitted message whose every model reply was a directive makes
\* exactly MAX_STEPS model calls, and its final reply is produced and reaches
\* the chat (unless the edit and the fallback send both fail).
C1_ExactlyMaxSteps ==
    (LoopEnded /\ abort # "llm" /\ tool_calls = llm_calls)
        => /\ llm_calls = MAX_STEPS
           /\ final_reply # <<>>
           /\ (delivered = <<final_reply>> \/ raised)

\* C2: a chat's memory is the last 10 turns update_memory was given for it,
\* in the order given; so it never holds more than 10, and the turn dropped
\* by an append to a full memory is the oldest.
C2_MemoryWindow ==
    \A c \in Chats :
        /\ Len(session_memory[c]) <= 10
        /\ session_memory[c] = Last(appended[c], 10)

C2_Evicted ==
    \E c \in Chats :
        /\ Len(appended[c]) > 10
        /\ appended[c][1] # appended[c][11]
        /\ session_memory[c][1] = appended[c][Len(appended[c]) - 9]

\* C3: no final reply that was delivered or stored holds "ACTION:", and a
\* candidate final reply that holds it is replaced by the fixed text.
C3_NoDirectiveLeak ==
    /\ [](/\ \A i \in 1..Len(delivered) : ~Contains(delivered[i], "ACTION:")
          /\ \A c \in Chats : \A i \in 1..Len(session_memory[c]) :
                 session_memory[c][i].role = "assistant"
                     => ~Contains(session_memory[c][i].content, "ACTION:"))
    /\ [][(pc = "finalize" /\ pc' = "done" /\ Contains(final_reply, "ACTION:"))
              => /\ final_reply' = ALLES_GUT
                 /\ \A i \in 1..Len(delivered') : delivered'[i] = ALLES_GUT]_vars

C3_Replaced ==
    /\ pc = "done"
    /\ reply = Norm(R_SPLICE)
    /\ final_reply = ALLES_GUT
    /\ delivered = <<ALLES_GUT>>
    /\ session_memory[chat_id][Len(session_memory[chat_id])] = Turn("assistant", ALLES_GUT)

\* C4: once a model call has failed, the request makes no further model call
\* and runs no further tool, and its final reply is the fixed failure text.
C4_BackendFailureAborts ==
    /\ [](abort = "llm" => pc \in {"finalize", "done"} /\ final_reply = BRAIN_DIED)
    /\ [][abort' = "llm" => llm_calls' = llm_calls /\ tool_calls' = tool_calls]_vars

C4_FailedLate ==
    /\ pc = "done"
    /\ abort = "llm"
    /\ llm_calls = 3
    /\ tool_calls = 2
    /\ delivered = <<BRAIN_DIED>>

\* C5: the loop is aborted with the failure reply only by a failed model call.
C5_OnlyBackendFatal ==
    (pc \in {"finalize", "done"} /\ abort # "none") => abort = "llm"

\* C6: a tool run that caught a failure inside itself (search timeout, search
\* provider error, CALC error, REMIND format error) appends its fixed text as
\* an OBSERVATION user turn to the working list and goes on to the next
\* iteration of the loop.
FailureText(err, obs) ==
    CASE err = "search_timeout" -> obs = SEARCH_TIMED_OUT
      [] err = "search_error" -> Len(obs) = 2 /\ obs[1] = "Search failed: "
      [] err = "calc_error" -> obs = MATH_ERROR
      [] err = "remind_format" -> obs = FORMAT_ERROR

C6_ToolFailureObserved ==
    [][(pc = "dispatch" /\ pc' # "dispatch" /\ tool_error' # "none")
          => /\ pc' = "loop"
             /\ step' = step + 1
             /\ abort' = "none"
             /\ final_reply' = COOKED
             /\ Len(messages') = Len(messages) + 1
             /\ SubSeq(messages', 1, Len(messages)) = messages
             /\ messages'[Len(messages')].role = "user"
             /\ messages'[Len(messages')].content[1] = "OBSERVATION: "
             /\ FailureText(tool_error', Tail(messages'[Len(messages')].content))
             /\ UNCHANGED <<job_queue, memory>>]_vars

C6_CalledAgain ==
    /\ pc = "llm_wait"
    /\ llm_calls = 3
    /\ tool_error = "search_timeout"
    /\ messages[Len(messages)] = Observation(SEARCH_TIMED_OUT)
    /\ messages[Len(messages) - 2] = Observation(<<"Search failed: ", "HTTP 403">>)

\* C7: a request that went through the loop has its final reply in the chat,
\* by the edit or by the fallback send, unless the edit and the send both failed.
C7_Delivered ==
    LoopEnded => (delivered = <<final_reply>> \/ raised)

\* C8: a request that went through the loop and whose final reply was
\* delivered has that reply as the last turn of the chat's memory.
C8_Persisted ==
    (LoopEnded /\ delivered # <<>>)
        => /\ session_memory[chat_id] # <<>>
           /\ session_memory[chat_id][Len(session_memory[chat_id])]
                  = Turn("assistant", final_reply)

\* C9: a message in a group that neither replies to the bot nor mentions it
\* causes no send, no edit, no model call, no tool run, no job and no append.
NotAddressed(u) ==
    /\ chat_type(u.chat) # "private"
    /\ ~u.reply_to_bot
    /\ ~Contains(u.text, BOT_MENTION)

C9_RejectedDoesNothing ==
    [][((update' # update \/ ANNOUNCE_CHAT_ID' # ANNOUNCE_CHAT_ID) /\ NotAddressed(update'))
          => /\ pc' = "idle"
             /\ UNCHANGED <<memory, job_queue, job_sends, frame, nreq, request>>]_vars

C9_Rejected ==
    /\ update = Update(2, <<"hi">>, FALSE)
    /\ pc = "idle"
    /\ Len(session_memory[1]) = 2
    /\ session_memory[2] = <<>>

\* C10: ANNOUNCE_CHAT_ID changes only when a message is admitted, and then to
\* that message's chat.
C10_TargetFollowsAdmitted ==
    [][ANNOUNCE_CHAT_ID' # ANNOUNCE_CHAT_ID
          => /\ ~NotAddressed(update')
             /\ update'.text # <<>>
             /\ ANNOUNCE_CHAT_ID' = update'.chat]_vars

\* C11: while a handle_message invocation is inside a model call, every
\* registered reminder job, and the weekly job, can run its callback (it does
\* not have to wait for the model call to return).
C11_JobsNotBlocked ==
    pc = "llm_wait"
        => /\ \A job \in BagToSet(job_queue) :
                  job.callback = "alarm_callback" => ENABLED AlarmCallback(job)
           /\ weekly_runs < MaxWeekly
                  => ENABLED (\E now \in WeeklyNows : WeeklyAnnounceCallback(now))

\* the argument of a REMIND directive without its quotes and periods, cut at
\* its first blank: the minutes token and what follows it
RemindParts(arg) ==
    LET clean == strip_chars(arg, {"\"", "."})
        b == FirstBlank(clean)
    IN  IF b = 0 THEN <<clean>>
        ELSE <<SubSeq(clean, 1, b - 1), SubSeq(clean, b + 1, Len(clean))>>

\* C12: a REMIND whose minutes token is a number registers exactly one
\* one-shot job (delay minutes*60, the request's chat, payload the reason or
\* "timer") and observes the confirmation; any other REMIND registers nothing
\* and observes the format error.  The job queue changes in no other way than
\* by such a registration or by a job firing, and a firing removes the job and
\* sends one alert, holding the payload, to the job's chat.
C12_RemindRegistersOne ==
    /\ [][(pc = "dispatch" /\ match.tool = "REMIND" /\ pc' # "dispatch")
             => LET parts == RemindParts(match.arg)
                    obs == messages'[Len(messages')]
                IN  /\ Len(messages') = Len(messages) + 1
                    /\ IF Len(parts[1]) = 1 /\ parts[1][1] \in DOMAIN NumValue
                       THEN /\ job_queue' = job_queue (+) SetToBag({
                                    [callback |-> "alarm_callback",
                                     chat_id |-> update.chat,
                                     data |-> IF Len(parts) > 1 THEN parts[2] ELSE <<"timer">>,
                                     when |-> NumValue[parts[1][1]] * 60]})
                            /\ obs = Turn("user", <<"OBSERVATION: ", "Timer set for ",
                                                    parts[1][1], ".", "0", " minutes.">>)
                       ELSE /\ job_queue' = job_queue
                            /\ obs = Turn("user", <<"OBSERVATION: ">> \o FORMAT_ERROR)]_vars
    /\ [][job_queue' # job_queue
             => \/ pc = "dispatch" /\ match.tool = "REMIND" /\ job_sends' = job_sends
                \/ \E job \in BagToSet(job_queue) :
                       /\ job.callback = "alarm_callback"
                       /\ job_queue' (+) SetToBag({job}) = job_queue
                       /\ job_sends' = job_sends (+) SetToBag({
                              [callback |-> "alarm_callback", chat_id |-> job.chat_id,
                               text |-> <<"ACHTUNG! REMINDER: ">> \o job.data]})]_vars
    /\ [][\A s \in BagToSet(job_sends') :
              (s.callback = "alarm_callback"
                  /\ CopiesIn(s, job_sends') # CopiesIn(s, job_sends))
                  => job_queue' # job_queue]_vars

C12_Reminded ==
    /\ pc = "done"
    /\ update.chat = 2
    /\ tool_calls = 1
    /\ reply = R_REMIND
    /\ messages[Len(messages)]
           = Turn("user", <<"OBSERVATION: ", "Timer set for ", "30", ".", "0", " minutes.">>)
    /\ job_queue = SetToBag({WeeklyJob})
    /\ job_sends = SetToBag({[callback |-> "alarm_callback", chat_id |-> 2,
                              text |-> <<"ACHTUNG! REMINDER: ", "oven">>]})

\* C13: a firing of the weekly job sends nothing when ANNOUNCE_CHAT_ID is
\* unset and otherwise makes exactly one send, to the chat ANNOUNCE_CHAT_ID
\* holds at the firing; nothing else makes a weekly send; and the weekly job
\* is in the job queue exactly once, in every state.
C13_WeeklyAnnouncement ==
    /\ [](CopiesIn(WeeklyJob, job_queue) = 1)
    /\ [][weekly_runs' # weekly_runs
             => /\ weekly_runs' = weekly_runs + 1
                /\ IF ANNOUNCE_CHAT_ID = None
                   THEN job_sends' = job_sends
                   ELSE \E s \in BagToSet(job_sends') :
                            /\ s.callback = "weekly_announce_callback"
                            /\ s.chat_id = ANNOUNCE_CHAT_ID
                            /\ SubSeq(s.text, 1, 3) = <<"SATURDAY CLEANING CHECK:", "\n", "\n">>
                            /\ job_sends' = job_sends (+) SetToBag({s})]_vars
    /\ [][weekly_runs' = weekly_runs
             => \A s \in BagToSet(job_sends') :
                    s.callback = "weekly_announce_callback"
                        => CopiesIn(s, job_sends') = CopiesIn(s, job_sends)]_vars

C13_Announced ==
    /\ weekly_runs = 1
    /\ Len(session_memory[1]) = 2
    /\ ANNOUNCE_CHAT_ID = 2
    /\ BagCardinality(job_sends) = 1
    /\ \E s \in BagToSet(job_sends) :
           s.callback = "weekly_announce_callback" /\ s.chat_id = 2
    /\ CopiesIn(WeeklyJob, job_queue) = 1

\* C14: at now = Jan 5, 2025, whatever the time of day, tool_check_schedule
\* shows the row "Jan 03 - 04" and then the next two rows; and a row whose
\* start date is two calendar days before now's date is kept by the window.
C14_LookbackTwoDays ==
    /\ (sched # <<>> /\ clock.year = 2025 /\ clock.month = 1 /\ clock.day = 5)
           => sched = <<"Cleaning Schedule:", "\n",
                        "\n", "Jan", " ", "03", " - ", "04", "\n",
                        "Kitchen: ", "@member3", "\n", "WC: ", "@member4", "\n",
                        "\n", "Jan", " ", "10", " - ", "11", "\n",
                        "Kitchen: ", "@member1", "\n", "WC: ", "@member2", "\n",
                        "\n", "Jan", " ", "17", " - ", "18", "\n",
                        "Kitchen: ", "@member4", "\n", "WC: ", "@member3", "\n">>
    /\ (/\ parsed # NoDate
        /\ Ordinal(parsed.year, parsed.month, parsed.day)
               = Ordinal(clock.year, clock.month, clock.day) - 2)
           => kept

Exhausted == pc \in {"finalize", "done"} /\ abort = "none" /\ step = MAX_STEPS

\* C16 (as claimed): after the loop has run out of steps the candidate final
\* reply is the text of the last model reply.
C16_LastReplyStands ==
    Exhausted => final_reply = reply

\* C16 (amended): after the loop has run out of steps the candidate final
\* reply is the placeholder "cooked." that final_reply was given before the
\* loop: not the last model reply (a directive), not a tool observation; and
\* it is what the directive-leak check lets through.
C16_ExhaustionDefault ==
    Exhausted
        => /\ final_reply = COOKED
           /\ llm_calls = MAX_STEPS
           /\ re_search(reply).matched
           /\ final_reply # reply
           /\ messages[Len(messages)].role = "user"
           /\ final_reply # Tail(messages[Len(messages)].content)
           /\ \A i \in 1..Len(delivered) : delivered[i] = COOKED

C16_Cooked ==
    /\ pc = "done"
    /\ step = MAX_STEPS
    /\ llm_calls = MAX_STEPS
    /\ reply = R_SCHEDULE
    /\ final_reply = COOKED
    /\ delivered = <<COOKED>>

\* C17: the steps of the loop (model call, parse, tool dispatch, observation)
\* leave the memory of every chat unchanged, and no OBSERVATION turn is ever
\* in a memory; the memory changes only when a message is admitted, by one
\* user turn holding the utterance, and when the final reply has been edited
\* in, by one assistant turn holding the final reply.
C17_ToolStepsLeaveMemory ==
    /\ [](\A c \in Chats : \A i \in 1..Len(appended[c]) :
              /\ appended[c][i].content # <<>>
              /\ appended[c][i].content[1] # "OBSERVATION: ")
    /\ [][(pc \in {"loop", "llm_wait", "dispatch"}) => UNCHANGED memory]_vars
    /\ [][memory' # memory
             => \/ /\ pc = "idle"
                   /\ pc' # "idle"
                   /\ appended' = [appended EXCEPT ![update'.chat] =
                                       Append(@, Turn("user", strip(update'.text)))]
                \/ /\ pc = "finalize"
                   /\ pc' = "done"
                   /\ appended' = [appended EXCEPT ![chat_id] =
                                       Append(@, Turn("assistant", final_reply'))]]_vars

C17_TwoToolSteps ==
    /\ pc = "done"
    /\ tool_calls = 2
    /\ llm_calls = 3
    /\ Len(messages) = 6
    /\ messages[3] = Turn("assistant", R_SEARCH)
    /\ messages[4].content[1] = "OBSERVATION: "
    /\ appended[chat_id] = <<Turn("user", <<"hi">>), Turn("assistant", <<"ok">>)>>
    /\ session_memory[chat_id] = appended[chat_id]

\* C18: within one request a model call is made only from the top of the loop
\* and, after the first, only once the observation of the previous dispatch is
\* the last turn of the working list; a tool is dispatched only after a model
\* call whose reply matched, once, and for the first directive of that reply;
\* so model calls <= MAX_STEPS, tool dispatches <= model calls, and never more
\* than one model call is without its dispatch.
C18_StrictlySequential ==
    /\ [](/\ llm_calls <= MAX_STEPS
          /\ tool_calls <= llm_calls
          /\ llm_calls - tool_calls <= 1
          /\ pc = "loop" => llm_calls = step /\ tool_calls = step
          /\ pc = "llm_wait" => llm_calls = step + 1 /\ tool_calls = step
          /\ pc = "dispatch" => llm_calls = step + 1 /\ tool_calls = step)
    /\ [][(pc # "done" /\ llm_calls' # llm_calls)
             => /\ pc = "loop"
                /\ pc' = "llm_wait"
                /\ llm_calls' = llm_calls + 1
                /\ UNCHANGED <<tool_calls, messages, job_queue>>
                /\ llm_calls > 0
                       => /\ messages[Len(messages)].role = "user"
                          /\ messages[Len(messages)].content[1] = "OBSERVATION: "
                          /\ messages[Len(messages) - 1] = Turn("assistant", reply)]_vars
    /\ [][(pc # "done" /\ tool_calls' # tool_calls)
             => /\ pc = "dispatch"
                /\ pc' \in {"loop", "finalize"}
                /\ tool_calls' = tool_calls + 1
                /\ UNCHANGED llm_calls
                /\ \E i \in 1..Len(reply) :
                       /\ MatchAt(reply, i)
                       /\ \A k \in 1..(i - 1) : ~MatchAt(reply, k)
                       /\ match.tool = upper(reply[NextNonWs(reply, i)])
                /\ pc' = "loop"
                       => /\ Len(messages') = Len(messages) + 1
                          /\ messages'[Len(messages')].content[1] = "OBSERVATION: "]_vars

C18_FirstDirectiveOnly ==
    /\ pc = "finalize"
    /\ llm_calls = MAX_STEPS
    /\ tool_calls = MAX_STEPS
    /\ reply = R_REMIND_TIMER
    /\ match.tool = "REMIND"
    /\ match.arg = <<"30">>
    /\ messages[Len(messages)]
           = Turn("user", <<"OBSERVATION: ", "Timer set for ", "30", ".", "0", " minutes.">>)
    /\ BagCardinality(job_queue) = MAX_STEPS + 1

\* C19: the status message is created before the utterance is appended to the
\* chat's memory; so a request that ends because creating the status message
\* failed has left every chat's memory as it was.
C19_StatusBeforeMemory ==
    [][(pc = "idle" /\ pc' = "done" /\ status_msg' = None /\ raised')
          => UNCHANGED memory]_vars

\* the confirmations of successful REMIND directives in the working list
Confirmations ==
    {i \in 1..Len(messages) :
        /\ messages[i].role = "user"
        /\ Len(messages[i].content) >= 2
        /\ messages[i].content[2] = "Timer set for "}

\* the copies in bag b of the elements that satisfy alarm_callback's shape
Alarms(b) ==
    BagCardinality([x \in {y \in BagToSet(b) : y.callback = "alarm_callback"} |-> b[x]])

\* C20: the step at which a model call fails leaves the job queue as it is,
\* and after the loop a job leaves the queue only by firing, with one alert to
\* its chat; during the first request the reminders registered and not yet
\* fired, plus those fired, are as many as the REMIND directives that were
\* confirmed, each for the request's chat.
C20_NoRollback ==
    /\ [][(abort # "llm" /\ abort' = "llm")
             => /\ job_queue' = job_queue
                /\ job_sends' = job_sends]_vars
    /\ [][(pc \in {"finalize", "done"} /\ job_queue' # job_queue)
             => \E job \in BagToSet(job_queue) :
                    /\ job.callback = "alarm_callback"
                    /\ job_queue' (+) SetToBag({job}) = job_queue
                    /\ \E s \in BagToSet(job_sends') :
                           /\ s.chat_id = job.chat_id
                           /\ s.text = <<"ACHTUNG! REMINDER: ">> \o job.data
                           /\ job_sends' = job_sends (+) SetToBag({s})]_vars
    /\ []((nreq = 1 /\ pc # "idle")
             => /\ Alarms(job_queue) + Alarms(job_sends) = Cardinality(Confirmations)
                /\ \A x \in BagToSet(job_queue) :
                       x.callback = "alarm_callback" => x.chat_id = chat_id
                /\ \A x \in BagToSet(job_sends) :
                       x.callback = "alarm_callback" => x.chat_id = chat_id)

C20_KeptAfterFailure ==
    /\ pc = "done"
    /\ abort = "llm"
    /\ delivered = <<BRAIN_DIED>>
    /\ reply = R_REMIND
    /\ tool_calls = 2
    /\ chat_id = 2
    /\ job_queue = SetToBag({WeeklyJob,
                             [callback |-> "alarm_callback", chat_id |-> 2,
                              data |-> <<"oven">>, when |-> 1800]})
    /\ job_sends = SetToBag({[callback |-> "alarm_callback", chat_id |-> 2,
                              text |-> <<"ACHTUNG! REMINDER: ", "oven">>]})

=============================================================================
